---- MODULE Spec2Model ----
(***************************************************************************)
(* Model of upload-lambda/src/main/upload-function.py: the Lambda handler  *)
(* that receives a video (JSON+base64 or multipart), extracts frames with  *)
(* ffmpeg, zips them, uploads the zip to S3 and tracks the upload in a     *)
(* DynamoDB table.                                                         *)
(*                                                                         *)
(* Three specifications:                                                   *)
(*   Spec      - NumInvocations handler executions interleaved at their    *)
(*               external calls, sharing the clock, table and bucket.      *)
(*   SpecParse - lambda_handler lines 37-48 applied to one (config, event).*)
(*   SpecExt   - validar_extensao applied to one filename.                 *)
(***************************************************************************)
EXTENDS Integers, Sequences, FiniteSets, TLC

VARIABLES
    pc,           \* per invocation: the next external call of lambda_handler
    cfg,          \* per invocation: module-level S3_BUCKET / TABLE_NAME
    req,          \* per invocation: (email, nome_arquivo, arquivo_bytes)
    ts,           \* per invocation: timestamp (line 50)
    uid,          \* per invocation: upload_id (line 52)
    frames,       \* per invocation: number of frame files returned by extrair_frames
    resp,         \* per invocation: what lambda_handler returned (or raised)
    log,          \* per invocation: the steps that completed, in order
    tmpCreated,   \* invocations whose scratch directory mkdtemp has created
    rmAttempted,  \* invocations whose handler called limpar_diretorio_temporario
    now,          \* wall clock, in seconds
    nextUid,      \* source of fresh uuid4 values
    records,      \* DynamoDB table: (idEmail, idUpload) -> item
    objects,      \* S3 bucket: key -> object
    putCount,     \* per invocation: put_item calls issued
    updCount,     \* per invocation: update_item calls issued
    upKey,        \* per invocation: the key upload_para_s3 wrote, once it has
    extName,      \* SpecExt: the filename
    extDone,      \* SpecExt: validar_extensao has been applied
    extResult,    \* SpecExt: its result
    pIn,          \* SpecParse: the (config, event) pair
    pDone,        \* SpecParse: the handler prefix has been applied
    pOut          \* SpecParse: its outcome

vars == <<pc, cfg, req, ts, uid, frames, resp, log, tmpCreated, rmAttempted, now,
          nextUid, records, objects, putCount, updCount, upKey,
          extName, extDone, extResult, pIn, pDone, pOut>>

pipeVars == <<pc, cfg, req, ts, uid, frames, resp, log, tmpCreated, rmAttempted, now,
              nextUid, records, objects, putCount, updCount, upKey>>

extVars == <<extName, extDone, extResult>>

parseVars == <<pIn, pDone, pOut>>

(***************************************************************************)
(* Bounds                                                                  *)
(***************************************************************************)
NumInvocations == 2

MaxFrames == 2

MaxTime == 1

MaxNameLen == 3

MaxParts == 2

Invocations == 1..NumInvocations

(***************************************************************************)
(* Text: a string is a sequence of one-character strings.                  *)
(***************************************************************************)
UpperChars ==
    <<"A","B","C","D","E","F","G","H","I","J","K","L","M",
      "N","O","P","Q","R","S","T","U","V","W","X","Y","Z">>

LowerChars ==
    <<"a","b","c","d","e","f","g","h","i","j","k","l","m",
      "n","o","p","q","r","s","t","u","v","w","x","y","z">>

\* str.lower() on one character
LowerChar(c) ==
    IF \E k \in 1..Len(UpperChars) : UpperChars[k] = c
    THEN LowerChars[CHOOSE k \in 1..Len(UpperChars) : UpperChars[k] = c]
    ELSE c

\* str.lower()
StrLower(s) == [k \in 1..Len(s) |-> LowerChar(s[k])]

\* str.rfind(c), 1-based; 0 when c does not occur (Python's -1)
RFind(s, c) ==
    IF \E k \in 1..Len(s) : s[k] = c
    THEN CHOOSE k \in 1..Len(s) : s[k] = c /\ \A j \in (k+1)..Len(s) : s[j] # c
    ELSE 0

\* Path(s).name for a string without path separators: "." and "" have no name
PathName(s) == IF s = <<".">> THEN <<>> ELSE s

\* Path(s).suffix: the last dot of the name and what follows it, provided the
\* dot is neither the first nor the last character of the name
PathSuffix(s) ==
    LET name == PathName(s)
        i    == RFind(name, ".")
    IN  IF 1 < i /\ i < Len(name) THEN SubSeq(name, i, Len(name)) ELSE <<>>

ExtensoesPermitidas ==
    { <<".","m","p","4">>, <<".","a","v","i">>, <<".","m","o","v">>,
      <<".","m","k","v">>, <<".","w","m","v">>, <<".","f","l","v">>,
      <<".","w","e","b","m">> }

\* validar_extensao without the .lower() call
validar_extensao_sem_lower(nome_arquivo) ==
    PathSuffix(nome_arquivo) \in ExtensoesPermitidas

validar_extensao(nome_arquivo) ==
    StrLower(PathSuffix(nome_arquivo)) \in ExtensoesPermitidas

(***************************************************************************)
(* Filenames of SpecExt: concatenations of at most MaxNameLen pieces.      *)
(***************************************************************************)
NamePieces ==
    { <<".">>, <<"m","p","4">>, <<"M","P","4">>, <<"W","e","b","M">>,
      <<"a","v","i">>, <<"m","o","v">>, <<"m","k","v">>, <<"w","m","v">>,
      <<"F","l","v">>, <<"t","x","t">>, <<"c","l","i","p">> }

RECURSIVE NamesOfLen(_)
NamesOfLen(n) ==
    IF n = 0 THEN { <<>> }
    ELSE { p \o q : p \in NamesOfLen(n - 1), q \in NamePieces }

Filenames == UNION { NamesOfLen(n) : n \in 0..MaxNameLen }

(***************************************************************************)
(* Python values, as far as the handler looks at them.  A byte string is   *)
(* modelled by its length: the handler tests it for emptiness and writes   *)
(* it to disk, nothing else.                                               *)
(***************************************************************************)
PyNone == [t |-> "None"]

PyStr(s) == [t |-> "str", v |-> s]

PyNum(k) == [t |-> "num", v |-> k]

PyBytes(n) == [t |-> "bytes", n |-> n]

\* bool(v)
Truthy(v) ==
    CASE v.t = "None"  -> FALSE
      [] v.t = "str"   -> v.v # <<>>
      [] v.t = "num"   -> v.v # 0
      [] v.t = "bytes" -> v.n > 0

B64Alphabet == {"Q", "U", "J", "D"}

\* binascii.a2b_base64 in its default (non-strict) mode: characters outside
\* the alphabet are skipped, "=" ends the data once a quad is complete, and
\* a quad left open at the end is an error.  n counts the bytes produced.
RECURSIVE A2bBase64(_, _, _, _, _)
A2bBase64(s, i, quad, pads, n) ==
    IF i > Len(s)
    THEN IF quad # 0 THEN [ok |-> FALSE, n |-> 0] ELSE [ok |-> TRUE, n |-> n]
    ELSE IF s[i] = "="
         THEN IF quad >= 2 /\ quad + pads + 1 >= 4
              THEN [ok |-> TRUE, n |-> n]
              ELSE A2bBase64(s, i + 1, quad, IF quad >= 2 THEN pads + 1 ELSE pads, n)
         ELSE IF s[i] \notin B64Alphabet
              THEN A2bBase64(s, i + 1, quad, pads, n)
              ELSE A2bBase64(s, i + 1, (quad + 1) % 4, 0, IF quad = 0 THEN n ELSE n + 1)

\* base64.b64decode(v): TypeError for a non-string, binascii.Error (a
\* ValueError) for an open quad, else the decoded bytes
B64Decode(v) ==
    IF v.t # "str" THEN [ok |-> FALSE, n |-> 0] ELSE A2bBase64(v.v, 1, 0, 0, 0)

(***************************************************************************)
(* Events.                                                                 *)
(*   headers: a set of <<key, value>> pairs (at most one here); a value is *)
(*            a sequence of text pieces, `x in value` is a piece test.     *)
(*   body:    [kind |-> "none"]       no body                              *)
(*            [kind |-> "empty"]      ""                                   *)
(*            [kind |-> "garbage"]    text that is neither JSON nor a form *)
(*            [kind |-> "json", val]  JSON text of value val               *)
(*            [kind |-> "multipart", wrapped, parts]  a multipart form,    *)
(*                                    base64-wrapped or not                *)
(*            b64ok: whether non-strict base64 decoding of the text works  *)
(***************************************************************************)
ContentTypeKey == <<"c","o","n","t","e","n","t","-","t","y","p","e">>

HeaderKeys ==
    { ContentTypeKey,
      <<"C","o","n","t","e","n","t","-","T","y","p","e">>,
      <<"x","-","i","d">> }

MultipartFormData == "multipart/form-data"

HeaderValues ==
    { <<"application/json">>,
      <<MultipartFormData, "; boundary=b">>,
      <<"Multipart/Form-Data", "; boundary=b">> }

HeaderSets == { {} } \cup { { <<k, v>> } : k \in HeaderKeys, v \in HeaderValues }

Email1 == <<"a","@","b">>

ClipMp4 == <<"c","l","i","p",".","m","p","4">>

ClipTxt == <<"c","l","i","p",".","t","x","t">>

Absent == [t |-> "absent"]

EmailFields == { Absent, PyNone, PyStr(<<>>), PyStr(Email1) }

FilenameFields == { Absent, PyNone, PyStr(<<>>), PyStr(ClipMp4), PyStr(ClipTxt), PyNum(7) }

ArquivoFields ==
    { Absent, PyNone, PyNum(7),
      PyStr(<<>>),                          \* ""
      PyStr(<<"Q","U","J","D">>),           \* 3 bytes
      PyStr(<<"Q","U","J">>),               \* open quad
      PyStr(<<"!","Q","U","J","D">>),       \* not base64, decodes to 3 bytes
      PyStr(<<"!","!","!","!">>),           \* not base64, decodes to b""
      PyStr(<<"Q","Q","=","=">>) }          \* 1 byte

JsonObjects ==
    { [t |-> "object", email |-> e, filename |-> f, arquivo |-> a] :
        e \in EmailFields, f \in FilenameFields, a \in ArquivoFields }

JsonValues ==
    { [t |-> "null"], [t |-> "array"], [t |-> "number"], [t |-> "string"] }
        \cup JsonObjects

\* One part of a multipart form: its name, its filename parameter, the length
\* of its payload and the payload as UTF-8 text ([t |-> "invalid"] if it is none)
Parts ==
    { [name |-> "video", filename |-> PyStr(ClipMp4), n |-> 3, text |-> PyStr(<<"v">>)],
      [name |-> "video", filename |-> PyStr(ClipTxt), n |-> 3, text |-> PyStr(<<"v">>)],
      [name |-> "video", filename |-> PyStr(ClipMp4), n |-> 0, text |-> PyStr(<<>>)],
      [name |-> "email", filename |-> PyStr(ClipMp4), n |-> 3, text |-> PyStr(Email1)],
      [name |-> "email", filename |-> PyNone, n |-> 3, text |-> PyStr(Email1)],
      [name |-> "email", filename |-> PyNone, n |-> 0, text |-> PyStr(<<>>)],
      [name |-> "email", filename |-> PyNone, n |-> 2, text |-> [t |-> "invalid"]],
      [name |-> "other", filename |-> PyNone, n |-> 1, text |-> PyStr(<<"o">>)] }

RECURSIVE PartSeqs(_)
PartSeqs(n) ==
    IF n = 0 THEN { <<>> }
    ELSE PartSeqs(n - 1) \cup
         { Append(ps, p) : ps \in { q \in PartSeqs(n - 1) : Len(q) = n - 1 }, p \in Parts }

Bodies ==
    { [kind |-> "none"], [kind |-> "empty"] }
    \cup { [kind |-> "garbage", b64ok |-> b] : b \in BOOLEAN }
    \cup { [kind |-> "json", val |-> j, b64ok |-> b] : j \in JsonValues, b \in BOOLEAN }
    \cup { [kind |-> "multipart", wrapped |-> FALSE, parts |-> ps, b64ok |-> b] :
             ps \in PartSeqs(MaxParts), b \in BOOLEAN }
    \cup { [kind |-> "multipart", wrapped |-> TRUE, parts |-> ps, b64ok |-> TRUE] :
             ps \in PartSeqs(MaxParts) }

Events ==
    { [headers |-> h, isBase64Encoded |-> f, body |-> b] :
        h \in HeaderSets, f \in BOOLEAN, b \in Bodies }

\* os.environ.get(...): unset, set to "", or set to a name
EnvValues == { PyNone, PyStr(<<>>), PyStr(<<"n">>) }

Configs == { [bucket |-> b, table |-> t] : b \in EnvValues, t \in EnvValues }

(***************************************************************************)
(* extrair_dados_requisicao                                                *)
(***************************************************************************)
Raise(exc, msg) == [t |-> "raise", exc |-> exc, msg |-> msg]

\* {k.lower(): v ...}.get('content-type')
ContentTypeOf(event) ==
    LET lowered == { <<StrLower(h[1]), h[2]>> : h \in event.headers }
    IN  IF \E h \in lowered : h[1] = ContentTypeKey
        THEN PyStr((CHOOSE h \in lowered : h[1] = ContentTypeKey)[2])
        ELSE PyNone

\* content_type and 'multipart/form-data' in content_type
IsMultipart(content_type) ==
    /\ Truthy(content_type)
    /\ \E k \in 1..Len(content_type.v) : content_type.v[k] = MultipartFormData

\* dict.get(key): None for a missing key
DictGet(field) == IF field.t = "absent" THEN PyNone ELSE field

\* lines 105-111: the parts the email parser finds in the body, or the
\* binascii.Error of base64.b64decode
BodyParts(event) ==
    LET b == event.body
    IN  IF b.kind \in {"none", "empty"} THEN [ok |-> TRUE, parts |-> <<>>]
        ELSE IF event.isBase64Encoded
             THEN IF ~b.b64ok THEN [ok |-> FALSE, parts |-> <<>>]
                  ELSE IF b.kind = "multipart" /\ b.wrapped
                       THEN [ok |-> TRUE, parts |-> b.parts]
                       ELSE [ok |-> TRUE, parts |-> <<>>]
             ELSE IF b.kind = "multipart" /\ ~b.wrapped
                  THEN [ok |-> TRUE, parts |-> b.parts]
                  ELSE [ok |-> TRUE, parts |-> <<>>]

\* lines 115-123: the loop over the parts; acc is (email, nome_arquivo,
\* arquivo_bytes) so far
RECURSIVE IterParts(_, _, _)
IterParts(parts, k, acc) ==
    IF k > Len(parts) THEN acc
    ELSE LET part == parts[k]
         IN  IF Truthy(part.filename)
             THEN IterParts(parts, k + 1,
                      [acc EXCEPT !.nome_arquivo = part.filename,
                                  !.arquivo_bytes = PyBytes(part.n)])
             ELSE IF part.name = "email"
                  THEN IF part.text.t = "invalid"
                       THEN Raise("UnicodeDecodeError", "invalid start byte")
                       ELSE IterParts(parts, k + 1, [acc EXCEPT !.email = part.text])
                  ELSE IterParts(parts, k + 1, acc)

NoFields == [t |-> "ok", email |-> PyNone, nome_arquivo |-> PyNone, arquivo_bytes |-> PyNone]

\* lines 139-142
CheckFields(acc) ==
    IF acc.t = "raise" THEN acc
    ELSE IF ~Truthy(acc.email) \/ ~Truthy(acc.nome_arquivo) \/ ~Truthy(acc.arquivo_bytes)
         THEN Raise("ValueError", "Parametros ausentes: email, filename e arquivo sao obrigatorios")
         ELSE acc

\* lines 125-137
JsonBranch(event) ==
    LET b == event.body
    IN  IF b.kind \in {"garbage", "multipart"}
        THEN Raise("ValueError", "Corpo invalido: esperado JSON ou multipart/form-data")
        ELSE IF b.kind = "json" /\ b.val.t # "object"
             THEN Raise("AttributeError", "object has no attribute 'get'")
             ELSE LET body == IF b.kind = "json" THEN b.val
                              ELSE [t |-> "object", email |-> Absent,
                                    filename |-> Absent, arquivo |-> Absent]
                      arquivo_b64 == DictGet(body.arquivo)
                      dec == B64Decode(arquivo_b64)
                  IN  IF Truthy(arquivo_b64) /\ ~dec.ok
                      THEN Raise("ValueError", "Arquivo base64 invalido")
                      ELSE [t |-> "ok",
                            email |-> DictGet(body.email),
                            nome_arquivo |-> DictGet(body.filename),
                            arquivo_bytes |-> IF Truthy(arquivo_b64)
                                              THEN PyBytes(dec.n) ELSE PyNone]

\* lines 104-123
MultipartBranch(event) ==
    LET bp == BodyParts(event)
    IN  IF ~bp.ok THEN Raise("binascii.Error", "Incorrect padding")
        ELSE IterParts(bp.parts, 1, NoFields)

extrair_dados_requisicao(event) ==
    IF IsMultipart(ContentTypeOf(event))
    THEN CheckFields(MultipartBranch(event))
    ELSE CheckFields(JsonBranch(event))

(***************************************************************************)
(* lambda_handler, lines 37-48: configuration check, parsing, extension    *)
(* check.  Nothing outside the invocation is touched.                      *)
(***************************************************************************)
\* responder: json.dumps of the body is kept as the body itself
responder(status_code, body_dict) ==
    [statusCode |-> status_code, contentType |-> "application/json", body |-> body_dict]

Falha(message) == [success |-> FALSE, message |-> message]

Return(r, steps) == [t |-> "return", val |-> r, steps |-> steps]

Unhandled(exc, steps) == [t |-> "raise", exc |-> exc, steps |-> steps]

\* what `except ValueError` catches
IsValueError(exc) == exc \in {"ValueError", "binascii.Error", "UnicodeDecodeError"}

\* HandlerPrefix with the TABLE check left out
HandlerPrefix_sem_table(c, event) ==
    IF ~Truthy(c.bucket)
    THEN Return(responder(500, Falha("Variavel de ambiente BUCKET nao configurada")), <<>>)
    ELSE LET r == extrair_dados_requisicao(event)
         IN  IF r.t = "raise"
             THEN IF IsValueError(r.exc)
                  THEN Return(responder(400, Falha(r.msg)), <<>>)
                  ELSE Unhandled(r.exc, <<>>)
             ELSE IF r.nome_arquivo.t # "str"
                  THEN Unhandled("TypeError", <<"parse">>)
                  ELSE IF ~validar_extensao(r.nome_arquivo.v)
                       THEN Return(responder(400, Falha("Formato nao suportado")), <<"parse">>)
                       ELSE [t |-> "continue", req |-> r, steps |-> <<"parse", "validate">>]

HandlerPrefix(c, event) ==
    IF ~Truthy(c.bucket)
    THEN Return(responder(500, Falha("Variavel de ambiente BUCKET nao configurada")), <<>>)
    ELSE IF ~Truthy(c.table)
    THEN Return(responder(500, Falha("Variavel de ambiente TABLE nao configurada")), <<>>)
    ELSE LET r == extrair_dados_requisicao(event)
         IN  IF r.t = "raise"
             THEN IF IsValueError(r.exc)
                  THEN Return(responder(400, Falha(r.msg)), <<>>)
                  ELSE Unhandled(r.exc, <<>>)
             ELSE IF r.nome_arquivo.t # "str"
                  THEN Unhandled("TypeError", <<"parse">>)
                  ELSE IF ~validar_extensao(r.nome_arquivo.v)
                       THEN Return(responder(400, Falha("Formato nao suportado")), <<"parse">>)
                       ELSE [t |-> "continue", req |-> r, steps |-> <<"parse", "validate">>]

\* The outcomes of lines 37-48 over all events, per configuration
PrefixOutcomes == [c \in Configs |-> { HandlerPrefix(c, ev) : ev \in Events }]

(***************************************************************************)
(* The record store and the object store                                   *)
(***************************************************************************)
\* table.put_item(Item=item): the item replaces whatever the key held
PutItem(table, key, item) ==
    [k \in DOMAIN table \cup {key} |-> IF k = key THEN item ELSE table[k]]

\* table.update_item(Key, SET attrs): the attributes are set on the item of
\* that key, which is created from the key when it does not exist
UpdateItem(table, key, attrs) ==
    LET old == IF key \in DOMAIN table THEN table[key]
               ELSE [idEmail |-> key[1], idUpload |-> key[2]]
    IN  [k \in DOMAIN table \cup {key} |-> IF k = key THEN attrs @@ old ELSE table[k]]

\* created_at is the instant of the call, which nothing reads back
criar_registro_inicial(table, email, upload_id) ==
    PutItem(table, <<email, upload_id>>,
            [idEmail |-> email, idUpload |-> upload_id,
             status |-> "processando", created_at |-> "utcnow"])

\* atualizar_registro_concluido writing the status only
atualizar_registro_so_status(table, email, upload_id, s3_key, frame_count) ==
    UpdateItem(table, <<email, upload_id>>, [status |-> "Concluido"])

atualizar_registro_concluido(table, email, upload_id, s3_key, frame_count) ==
    UpdateItem(table, <<email, upload_id>>,
               [s3_key |-> s3_key, status |-> "Concluido", frame_count |-> frame_count])

\* time.strftime('%Y%m%d_%H%M%S'): the clock counts whole seconds
Strftime(t) == t

\* f'frames_{timestamp}.zip'
ZipNome(timestamp) == <<"frames_", timestamp, ".zip">>

\* f'outputs/{zip_nome}'
S3Key(zip_nome) == <<"outputs/">> \o zip_nome

\* f"{email}_{upload_id}"
RecordId(email, upload_id) == <<email, "_", upload_id>>

FallbackPaths == <<"/opt/bin/ffmpeg", "/var/task/ffmpeg", "./ffmpeg">>

\* The machine as obter_caminho_ffmpeg sees it: whether ffmpeg is on PATH and
\* which of the fallback paths hold an executable
FfmpegEnvs ==
    { [onPath |-> w, present |-> ps] :
        w \in BOOLEAN, ps \in SUBSET { FallbackPaths[k] : k \in 1..Len(FallbackPaths) } }

obter_caminho_ffmpeg(env) ==
    IF env.onPath THEN "ffmpeg"
    ELSE IF \E k \in 1..Len(FallbackPaths) : FallbackPaths[k] \in env.present
         THEN FallbackPaths[CHOOSE k \in 1..Len(FallbackPaths) :
                               /\ FallbackPaths[k] \in env.present
                               /\ \A j \in 1..(k - 1) : FallbackPaths[j] \notin env.present]
         ELSE "ffmpeg"

\* subprocess.run can start the command
CanRun(cmd, env) == (cmd = "ffmpeg" /\ env.onPath) \/ cmd \in env.present

\* extrair_frames: the number of frame files it returns (the sorted glob of
\* frame_0001.png, frame_0002.png, ...), or the exception it raises
extrair_frames(env, returncode, n) ==
    IF ~CanRun(obter_caminho_ffmpeg(env), env)
    THEN [t |-> "raise", exc |-> "FileNotFoundError"]
    ELSE IF returncode # 0
         THEN [t |-> "raise", exc |-> "Erro no ffmpeg"]
         ELSE [t |-> "ok", frames |-> n]

\* Its outcomes over every machine, exit status and number of frames written
ExtractOutcomes ==
    { extrair_frames(env, rc, n) : env \in FfmpegEnvs, rc \in {0, 1}, n \in 0..MaxFrames }

(***************************************************************************)
(* The pipeline: one action per external call of lambda_handler.  A call   *)
(* that raises is taken to have had no effect on the store it talks to.    *)
(* When the handler returns, its locals timestamp and frames are gone.     *)
(***************************************************************************)
NoResp == [t |-> "none"]

NoKey == <<>>

Returned(r) == [t |-> "return", val |-> r]

Step(i, name) == log' = [log EXCEPT ![i] = Append(@, name)]

DropLocals(i) ==
    /\ ts' = [ts EXCEPT ![i] = 0]
    /\ frames' = [frames EXCEPT ![i] = 0]

\* The handler goes on to its next call
GoOn(i, next, name) ==
    /\ pc' = [pc EXCEPT ![i] = next]
    /\ Step(i, name)
    /\ UNCHANGED <<resp, tmpCreated, rmAttempted>>

\* limpar_diretorio_temporario: rmtree is called on the directory.  Whether it
\* removes it is not recorded: a failure is swallowed and nothing reads it.
limpar_diretorio_temporario(i) ==
    /\ rmAttempted' = rmAttempted \cup {i}
    /\ UNCHANGED tmpCreated

\* A return out of the try block of lines 64-93: the finally clause runs
ReturnFinally(i, r) ==
    /\ resp' = [resp EXCEPT ![i] = Returned(r)]
    /\ pc' = [pc EXCEPT ![i] = "done"]
    /\ DropLocals(i)
    /\ limpar_diretorio_temporario(i)

\* lines 89-91: the except clause of the try block, then finally
ExceptFinally(i, detail) ==
    ReturnFinally(i, responder(500, Falha(<<"Erro interno: ", detail>>)))

\* lines 80-87
Sucesso(i) ==
    responder(200,
        [success |-> TRUE,
         message |-> <<"Processamento concluido! ", frames[i], " frames extraidos.">>,
         record_id |-> RecordId(req[i].email.v, uid[i]),
         s3_key |-> S3Key(ZipNome(ts[i])),
         frame_count |-> frames[i],
         images |-> [k \in 1..frames[i] |-> <<"frame_", k, ".png">>]])

\* Invocations are anonymous: they are numbered in the order they start
MayStart(i) == pc[i] = "idle" /\ \A j \in 1..(i - 1) : pc[j] # "idle"

\* Invoke creating the scratch directory before the request is looked at
Invoke_mkdtemp_primeiro(i) ==
    /\ MayStart(i)
    /\ tmpCreated' = tmpCreated \cup {i}
    /\ \E o \in PrefixOutcomes[cfg] :
         IF o.t = "continue"
         THEN /\ req' = [req EXCEPT ![i] = o.req]
              /\ ts' = [ts EXCEPT ![i] = Strftime(now)]
              /\ uid' = [uid EXCEPT ![i] = nextUid]
              /\ nextUid' = nextUid + 1
              /\ pc' = [pc EXCEPT ![i] = "create"]
              /\ log' = [log EXCEPT ![i] = o.steps]
              /\ UNCHANGED resp
         ELSE /\ resp' = [resp EXCEPT ![i] =
                             IF o.t = "return" THEN Returned(o.val)
                             ELSE [t |-> "raise", exc |-> o.exc]]
              /\ pc' = [pc EXCEPT ![i] = "done"]
              /\ log' = [log EXCEPT ![i] = o.steps]
              /\ UNCHANGED <<req, ts, uid, nextUid>>
    /\ UNCHANGED <<cfg, frames, rmAttempted, now, records, objects, putCount,
                   updCount, upKey>>
    /\ UNCHANGED <<extVars, parseVars>>

\* lines 37-56: the handler is entered with some event
Invoke(i) ==
    /\ MayStart(i)
    /\ \E o \in PrefixOutcomes[cfg] :
         IF o.t = "continue"
         THEN /\ req' = [req EXCEPT ![i] = o.req]
              /\ ts' = [ts EXCEPT ![i] = Strftime(now)]
              /\ tmpCreated' = tmpCreated \cup {i}
              /\ uid' = [uid EXCEPT ![i] = nextUid]
              /\ nextUid' = nextUid + 1
              /\ pc' = [pc EXCEPT ![i] = "create"]
              /\ log' = [log EXCEPT ![i] = o.steps]
              /\ UNCHANGED resp
         ELSE /\ resp' = [resp EXCEPT ![i] =
                             IF o.t = "return" THEN Returned(o.val)
                             ELSE [t |-> "raise", exc |-> o.exc]]
              /\ pc' = [pc EXCEPT ![i] = "done"]
              /\ log' = [log EXCEPT ![i] = o.steps]
              /\ UNCHANGED <<req, ts, uid, nextUid, tmpCreated>>
    /\ UNCHANGED <<cfg, frames, rmAttempted, now, records, objects, putCount,
                   updCount, upKey>>
    /\ UNCHANGED <<extVars, parseVars>>

\* lines 58-62
CriarRegistroInicial(i) ==
    /\ pc[i] = "create"
    /\ putCount' = [putCount EXCEPT ![i] = @ + 1]
    /\ \/ /\ records' = criar_registro_inicial(records, req[i].email.v, uid[i])
          /\ GoOn(i, "stage", "create")
          /\ UNCHANGED <<ts, frames>>
       \/ /\ resp' = [resp EXCEPT ![i] = Returned(responder(500,
                         Falha("Erro ao gravar registro inicial no banco")))]
          /\ pc' = [pc EXCEPT ![i] = "done"]
          /\ DropLocals(i)
          /\ UNCHANGED <<records, log, tmpCreated, rmAttempted>>
    /\ UNCHANGED <<cfg, req, uid, now, nextUid, objects, updCount, upKey>>
    /\ UNCHANGED <<extVars, parseVars>>

\* line 65, salvar_video_local
SalvarVideoLocal(i) ==
    /\ pc[i] = "stage"
    /\ \/ /\ i \in tmpCreated
          /\ GoOn(i, "extract", "stage")
          /\ UNCHANGED <<ts, frames>>
       \/ /\ ExceptFinally(i, "OSError")
          /\ UNCHANGED log
    /\ UNCHANGED <<cfg, req, uid, now, nextUid, records, objects, putCount,
                   updCount, upKey>>
    /\ UNCHANGED <<extVars, parseVars>>

\* ExtrairFrames going on to the archive with an empty frame list
ExtrairFrames_sem_teste(i) ==
    /\ pc[i] = "extract"
    /\ \E o \in ExtractOutcomes :
         IF o.t = "raise"
         THEN ExceptFinally(i, o.exc) /\ UNCHANGED log
         ELSE /\ frames' = [frames EXCEPT ![i] = o.frames]
              /\ GoOn(i, "zip", "extract")
              /\ UNCHANGED ts
    /\ UNCHANGED <<cfg, req, uid, now, nextUid, records, objects, putCount,
                   updCount, upKey>>
    /\ UNCHANGED <<extVars, parseVars>>

\* lines 66-69, extrair_frames
ExtrairFrames(i) ==
    /\ pc[i] = "extract"
    /\ \E o \in ExtractOutcomes :
         IF o.t = "raise"
         THEN ExceptFinally(i, o.exc) /\ UNCHANGED log
         ELSE IF o.frames = 0
              THEN /\ ReturnFinally(i, responder(500,
                                       Falha("Nenhum frame extraido do video")))
                   /\ UNCHANGED log
              ELSE /\ frames' = [frames EXCEPT ![i] = o.frames]
                   /\ GoOn(i, "zip", "extract")
                   /\ UNCHANGED ts
    /\ UNCHANGED <<cfg, req, uid, now, nextUid, records, objects, putCount,
                   updCount, upKey>>
    /\ UNCHANGED <<extVars, parseVars>>

\* line 71, criar_arquivo_zip
CriarArquivoZip(i) ==
    /\ pc[i] = "zip"
    /\ \/ /\ GoOn(i, "upload", "zip")
          /\ UNCHANGED <<ts, frames>>
       \/ /\ ExceptFinally(i, "OSError")
          /\ UNCHANGED log
    /\ UNCHANGED <<cfg, req, uid, now, nextUid, records, objects, putCount,
                   updCount, upKey>>
    /\ UNCHANGED <<extVars, parseVars>>

\* s3.upload_file: the object under the key is replaced
UploadFile(bucket, key, object) ==
    [k \in DOMAIN bucket \cup {key} |-> IF k = key THEN object ELSE bucket[k]]

\* The zip written by criar_arquivo_zip, identified by the upload it belongs to
Archive(i) == [upload |-> uid[i]]

\* lines 73-74, upload_para_s3
UploadParaS3(i) ==
    /\ pc[i] = "upload"
    /\ \/ /\ objects' = UploadFile(objects, S3Key(ZipNome(ts[i])), Archive(i))
          /\ upKey' = [upKey EXCEPT ![i] = S3Key(ZipNome(ts[i]))]
          /\ GoOn(i, "update", "upload")
          /\ UNCHANGED <<ts, frames>>
       \/ /\ ExceptFinally(i, "S3UploadFailedError")
          /\ UNCHANGED <<log, objects, upKey>>
    /\ UNCHANGED <<cfg, req, uid, now, nextUid, records, putCount, updCount>>
    /\ UNCHANGED <<extVars, parseVars>>

\* AtualizarRegistroConcluido answering 200 although update_item raised
AtualizarRegistro_engole_erro(i) ==
    /\ pc[i] = "update"
    /\ updCount' = [updCount EXCEPT ![i] = @ + 1]
    /\ \/ /\ records' = atualizar_registro_concluido(records, req[i].email.v, uid[i],
                            S3Key(ZipNome(ts[i])), frames[i])
          /\ Step(i, "update")
       \/ UNCHANGED <<log, records>>
    /\ ReturnFinally(i, Sucesso(i))
    /\ UNCHANGED <<cfg, req, uid, now, nextUid, objects, putCount, upKey>>
    /\ UNCHANGED <<extVars, parseVars>>

\* AtualizarRegistroConcluido failing after the record has been written
AtualizarRegistro_falha_depois(i) ==
    /\ pc[i] = "update"
    /\ updCount' = [updCount EXCEPT ![i] = @ + 1]
    /\ records' = atualizar_registro_concluido(records, req[i].email.v, uid[i],
                      S3Key(ZipNome(ts[i])), frames[i])
    /\ \/ /\ Step(i, "update")
          /\ ReturnFinally(i, Sucesso(i))
       \/ /\ ExceptFinally(i, "TypeError")
          /\ UNCHANGED log
    /\ UNCHANGED <<cfg, req, uid, now, nextUid, objects, putCount, upKey>>
    /\ UNCHANGED <<extVars, parseVars>>

\* lines 76-87, atualizar_registro_concluido and the success response
AtualizarRegistroConcluido(i) ==
    /\ pc[i] = "update"
    /\ updCount' = [updCount EXCEPT ![i] = @ + 1]
    /\ \/ /\ records' = atualizar_registro_concluido(records, req[i].email.v, uid[i],
                            S3Key(ZipNome(ts[i])), frames[i])
          /\ Step(i, "update")
          /\ ReturnFinally(i, Sucesso(i))
       \/ /\ ExceptFinally(i, "ClientError")
          /\ UNCHANGED <<log, records>>
    /\ UNCHANGED <<cfg, req, uid, now, nextUid, objects, putCount, upKey>>
    /\ UNCHANGED <<extVars, parseVars>>

\* A second passes
Tick ==
    /\ now < MaxTime
    /\ now' = now + 1
    /\ UNCHANGED <<pc, cfg, req, ts, uid, frames, resp, log, tmpCreated, rmAttempted,
                   nextUid, records, objects, putCount, updCount, upKey>>
    /\ UNCHANGED <<extVars, parseVars>>

ExtIdle == extName = <<>> /\ extDone = FALSE /\ extResult = FALSE

ParseIdle ==
    /\ pIn = [cfg |-> [bucket |-> PyNone, table |-> PyNone],
              event |-> [headers |-> {}, isBase64Encoded |-> FALSE,
                         body |-> [kind |-> "none"]]]
    /\ pDone = FALSE
    /\ pOut = NoResp

PipeInit ==
    /\ pc = [i \in Invocations |-> "idle"]
    /\ req = [i \in Invocations |-> NoFields]
    /\ ts = [i \in Invocations |-> 0]
    /\ uid = [i \in Invocations |-> 0]
    /\ frames = [i \in Invocations |-> 0]
    /\ resp = [i \in Invocations |-> NoResp]
    /\ log = [i \in Invocations |-> <<>>]
    /\ tmpCreated = {}
    /\ rmAttempted = {}
    /\ now = 0
    /\ nextUid = 1
    /\ records = <<>>
    /\ objects = <<>>
    /\ putCount = [i \in Invocations |-> 0]
    /\ updCount = [i \in Invocations |-> 0]
    /\ upKey = [i \in Invocations |-> NoKey]

\* The module is loaded (lines 23-24 read the environment); nothing has run
Init ==
    /\ cfg \in Configs
    /\ PipeInit
    /\ ExtIdle
    /\ ParseIdle

Next ==
    \/ \E i \in Invocations : Invoke(i)
    \/ \E i \in Invocations : CriarRegistroInicial(i)
    \/ \E i \in Invocations : SalvarVideoLocal(i)
    \/ \E i \in Invocations : ExtrairFrames(i)
    \/ \E i \in Invocations : CriarArquivoZip(i)
    \/ \E i \in Invocations : UploadParaS3(i)
    \/ \E i \in Invocations : AtualizarRegistroConcluido(i)
    \/ Tick

Spec == Init /\ [][Next]_vars

(***************************************************************************)
(* SpecParse: lines 37-48 on one configuration and one event               *)
(***************************************************************************)
ParseInit ==
    /\ pIn \in { [cfg |-> c, event |-> ev] : c \in Configs, ev \in Events }
    /\ pDone = FALSE
    /\ pOut = NoResp
    /\ cfg = pIn.cfg
    /\ PipeInit
    /\ ExtIdle

ParseRequest ==
    /\ ~pDone
    /\ pDone' = TRUE
    /\ pOut' = HandlerPrefix(pIn.cfg, pIn.event)
    /\ UNCHANGED <<pIn, pipeVars, extVars>>

ParseNext == ParseRequest

SpecParse == ParseInit /\ [][ParseNext]_vars

(***************************************************************************)
(* SpecExt: validar_extensao on one filename                               *)
(***************************************************************************)
ExtInit ==
    /\ extName \in Filenames
    /\ extDone = FALSE
    /\ extResult = FALSE
    /\ cfg = [bucket |-> PyNone, table |-> PyNone]
    /\ PipeInit
    /\ ParseIdle

ValidarExtensao ==
    /\ ~extDone
    /\ extDone' = TRUE
    /\ extResult' = validar_extensao(extName)
    /\ UNCHANGED <<extName, pipeVars, parseVars>>

ExtNext == ValidarExtensao

SpecExt == ExtInit /\ [][ExtNext]_vars

(***************************************************************************)
(* Properties                                                              *)
(***************************************************************************)
FullLog == <<"parse", "validate", "create", "stage", "extract", "zip", "upload", "update">>

IsPrefix(s, t) == Len(s) <= Len(t) /\ \A k \in 1..Len(s) : s[k] = t[k]

Did(i, name) == \E k \in 1..Len(log[i]) : log[i][k] = name

\* The key of invocation i's record, once its upload id exists
Key(i) == <<req[i].email.v, uid[i]>>

Finished(i) == pc[i] = "done"

Answered(i, status) ==
    Finished(i) /\ resp[i].t = "return" /\ resp[i].val.statusCode = status

ConfigMissing == ~Truthy(cfg.bucket) \/ ~Truthy(cfg.table)

\* C1: every invocation that has returned after creating its scratch
\* directory has called limpar_diretorio_temporario on it.
C1_CleanupOnEveryExit ==
    \A i \in Invocations :
        (Finished(i) /\ i \in tmpCreated) => i \in rmAttempted

\* C2: two invocations that both uploaded an archive have distinct record
\* keys and uploaded under distinct object-store keys.
C2_IndependentArchives ==
    \A i, j \in Invocations :
        (i # j /\ upKey[i] # NoKey /\ upKey[j] # NoKey)
            => (Key(i) # Key(j) /\ upKey[i] # upKey[j])

\* C3, state part: each invocation issues at most one put_item and at most one
\* update_item; a record is processando or Concluido; a Concluido record
\* carries s3_key and frame_count and belongs to an invocation answered 200.
C3State ==
    /\ \A i \in Invocations : putCount[i] <= 1 /\ updCount[i] <= 1
    /\ \A k \in DOMAIN records :
         /\ records[k].status \in {"processando", "Concluido"}
         /\ records[k].status = "processando"
              => DOMAIN records[k] = {"idEmail", "idUpload", "status", "created_at"}
         /\ records[k].status = "Concluido"
              => /\ {"s3_key", "frame_count"} \subseteq DOMAIN records[k]
                 /\ \E i \in Invocations :
                      uid[i] = k[2] /\ Key(i) = k /\ Answered(i, 200)

\* C3, step part: records are never removed; a new record is processando; a
\* record changes only from processando to Concluido, s3_key and frame_count
\* being set by that same step.
C3Step ==
    /\ \A k \in DOMAIN records :
         /\ k \in DOMAIN records'
         /\ records'[k] # records[k]
              => /\ records[k].status = "processando"
                 /\ records'[k].status = "Concluido"
                 /\ {"s3_key", "frame_count"} \subseteq DOMAIN records'[k]
    /\ \A k \in DOMAIN records' \ DOMAIN records :
         records'[k].status = "processando"

\* C3: the upload record is created at most once as processando and changes
\* at most once, from processando to Concluido with s3_key and frame_count,
\* only on the path answered 200; no write is retried.
C3_RecordLifecycle == []C3State /\ [][C3Step]_vars

C3_Witness ==
    \E i \in Invocations :
        /\ Finished(i) /\ uid[i] # 0 /\ Key(i) \in DOMAIN records
        /\ records[Key(i)].status = "Concluido"

\* C4: when the handler returns, it answers 200 with success only from the
\* record update, with at least one frame, the archive uploaded under the
\* returned s3_key and the record Concluido with that key and that number of
\* frames; every other answer has success false.
C4_NoPartialSuccess ==
    [][\A i \in Invocations :
         (pc[i] # "done" /\ pc'[i] = "done" /\ resp'[i].t = "return") =>
            LET r == resp'[i].val
            IN  IF r.statusCode = 200 \/ r.body.success
                THEN /\ r.statusCode = 200 /\ r.body.success
                     /\ pc[i] = "update" /\ log'[i] = FullLog
                     /\ frames[i] >= 1
                     /\ r.body.frame_count = frames[i]
                     /\ Len(r.body.images) = frames[i]
                     /\ upKey[i] = r.body.s3_key
                     /\ r.body.s3_key \in DOMAIN objects'
                     /\ Key(i) \in DOMAIN records'
                     /\ records'[Key(i)].status = "Concluido"
                     /\ records'[Key(i)].s3_key = r.body.s3_key
                     /\ records'[Key(i)].frame_count = frames[i]
                ELSE r.statusCode # 200 /\ ~r.body.success]_vars

C4_Witness ==
    \E i \in Invocations :
        Answered(i, 200) /\ resp[i].val.body.frame_count = MaxFrames

\* C5: with BUCKET or TABLE missing, a finished invocation was answered 500
\* with success false by the configuration check, completed no step, created
\* no scratch directory and made no call to the table or the bucket.
C5_MissingConfig ==
    \A i \in Invocations :
        (Finished(i) /\ ConfigMissing) =>
            /\ Answered(i, 500)
            /\ ~resp[i].val.body.success
            /\ resp[i].val.body.message \in
                 { "Variavel de ambiente BUCKET nao configurada",
                   "Variavel de ambiente TABLE nao configurada" }
            /\ log[i] = <<>>
            /\ i \notin tmpCreated /\ i \notin rmAttempted
            /\ putCount[i] = 0 /\ updCount[i] = 0 /\ upKey[i] = NoKey
            /\ DOMAIN records = {} /\ DOMAIN objects = {}

C5_Witness ==
    \E i \in Invocations :
        Finished(i) /\ Truthy(cfg.bucket) /\ ~Truthy(cfg.table)

\* The event's content type selects the multipart branch
SaysMultipart(ev) ==
    \E h \in ev.headers :
        /\ StrLower(h[1]) = ContentTypeKey
        /\ \E k \in 1..Len(h[2]) : h[2][k] = MultipartFormData

\* A present, non-empty text field
HasText(field) == field.t = "str" /\ field.v # <<>>

\* A JSON request lacking email, filename or payload: no body, a body that is
\* not JSON, JSON that is no object, an object without one of the fields, or
\* an arquivo that base64 cannot decode or that decodes to nothing
JsonIncomplete(ev) ==
    \/ ev.body.kind # "json"
    \/ ev.body.val.t # "object"
    \/ ~HasText(ev.body.val.email)
    \/ ev.body.val.filename.t \in {"absent", "None"}
    \/ ev.body.val.filename = PyStr(<<>>)
    \/ ~HasText(ev.body.val.arquivo)
    \/ ~B64Decode(ev.body.val.arquivo).ok
    \/ B64Decode(ev.body.val.arquivo).n = 0

\* A multipart request lacking the file part or the email part
MultipartIncomplete(ev) ==
    \/ ev.body.kind # "multipart"
    \/ ev.body.wrapped # ev.isBase64Encoded
    \/ ~\E k \in 1..Len(ev.body.parts) :
            HasText(ev.body.parts[k].filename) /\ ev.body.parts[k].n > 0
    \/ ~\E k \in 1..Len(ev.body.parts) :
            /\ ev.body.parts[k].name = "email"
            /\ ~HasText(ev.body.parts[k].filename)
            /\ ev.body.parts[k].text.t = "str"
            /\ ev.body.parts[k].text.v # <<>>

\* C6: with the configuration present, a request lacking email, filename or
\* payload is answered 400 with success false.
C6_IncompleteIs400 ==
    (/\ pDone
     /\ Truthy(pIn.cfg.bucket) /\ Truthy(pIn.cfg.table)
     /\ IF SaysMultipart(pIn.event) THEN MultipartIncomplete(pIn.event)
                                    ELSE JsonIncomplete(pIn.event))
        => /\ pOut.t = "return"
           /\ pOut.val.statusCode = 400
           /\ ~pOut.val.body.success

\* Invocation i failed after its record was created
FailedAfterCreate(i) == Finished(i) /\ Did(i, "create") /\ ~Did(i, "update")

\* C7, state part: an invocation that failed after creating its record was
\* answered 500 with success false, its record is still processando without
\* s3_key and frame_count, and the key it uploaded under still holds an object.
C7State ==
    \A i \in Invocations :
        FailedAfterCreate(i) =>
            /\ Answered(i, 500)
            /\ ~resp[i].val.body.success
            /\ Key(i) \in DOMAIN records
            /\ records[Key(i)].status = "processando"
            /\ "s3_key" \notin DOMAIN records[Key(i)]
            /\ "frame_count" \notin DOMAIN records[Key(i)]
            /\ upKey[i] # NoKey => upKey[i] \in DOMAIN objects

\* C7, step part: the step on which such an invocation returns changes neither
\* the table nor the bucket.
C7Step ==
    \A i \in Invocations :
        (pc[i] # "done" /\ FailedAfterCreate(i)')
            => (records' = records /\ objects' = objects)

\* C7: a failure after the record was created is answered 500, leaves the
\* record processando and rolls nothing back.
C7_FailureLeavesProcessing == []C7State /\ [][C7Step]_vars

C7_Witness ==
    \E i \in Invocations :
        FailedAfterCreate(i) /\ Did(i, "upload") /\ upKey[i] \in DOMAIN objects

AllowedExt ==
    { <<"m","p","4">>, <<"a","v","i">>, <<"m","o","v">>, <<"m","k","v">>,
      <<"w","m","v">>, <<"f","l","v">>, <<"w","e","b","m">> }

\* name = stem . ext with a dot-free ext that is, lowercased, an allowed one
SplitsAt(name, k) ==
    /\ name[k] = "."
    /\ \A j \in (k + 1)..Len(name) : name[j] # "."
    /\ StrLower(SubSeq(name, k + 1, Len(name))) \in AllowedExt

\* C8 as stated: validar_extensao is true exactly for the names whose text
\* after the last dot is, case-insensitively, an allowed extension.
C8_SuffixAfterLastDot ==
    extDone => (extResult <=> \E k \in 1..Len(extName) : SplitsAt(extName, k))

\* C8 amended: validar_extensao is true exactly for the names whose last dot
\* is not their first character and whose text after it is, case-insensitively,
\* an allowed extension.
C8_SuffixWithStem ==
    extDone => (extResult <=> \E k \in 2..Len(extName) : SplitsAt(extName, k))

C8_Witness ==
    /\ extDone /\ extResult
    /\ extName = <<"m","p","4",".","W","e","b","M">>

\* The steps completed when the handler is about to make the call pc names
StepsBefore(p) ==
    CASE p = "idle"    -> 0
      [] p = "create"  -> 2
      [] p = "stage"   -> 3
      [] p = "extract" -> 4
      [] p = "zip"     -> 5
      [] p = "upload"  -> 6
      [] p = "update"  -> 7

\* C9: the completed steps of an invocation are an initial segment of parse,
\* validate, create, stage, extract, zip, upload, update, and each call is
\* made with exactly the earlier steps completed; the record exists iff
\* create completed, an archive was uploaded iff upload completed and then
\* only with at least one frame, the record is Concluido iff update completed.
C9_PipelineOrder ==
    \A i \in Invocations :
        /\ IsPrefix(log[i], FullLog)
        /\ ~Finished(i) => Len(log[i]) = StepsBefore(pc[i])
        /\ Answered(i, 200) => log[i] = FullLog
        /\ pc[i] \in {"zip", "upload", "update"} => frames[i] >= 1
        /\ Did(i, "create") <=> (uid[i] # 0 /\ Key(i) \in DOMAIN records)
        /\ Did(i, "upload") <=> upKey[i] # NoKey
        /\ Did(i, "upload") => upKey[i] \in DOMAIN objects
        /\ Did(i, "update") <=>
             (uid[i] # 0 /\ Key(i) \in DOMAIN records
                /\ records[Key(i)].status = "Concluido")

C9_Witness ==
    \E i \in Invocations : pc[i] = "update" /\ log[i] = SubSeq(FullLog, 1, 7)

\* C10: the step on which an invocation is answered 400 is its only step and
\* changes neither the table, nor the bucket, nor the scratch directories.
C10_RejectedChangesNothing ==
    [][\A i \in Invocations :
         (pc[i] # "done" /\ Answered(i, 400)') =>
            /\ pc[i] = "idle"
            /\ records' = records /\ objects' = objects
            /\ tmpCreated' = tmpCreated /\ rmAttempted' = rmAttempted
            /\ putCount'[i] = 0 /\ updCount'[i] = 0 /\ upKey'[i] = NoKey]_vars

C10_Witness ==
    \E i, j \in Invocations :
        /\ Answered(i, 400) /\ resp[i].val.body.message = "Formato nao suportado"
        /\ j # i /\ pc[j] = "update"

====
